---- MODULE Spec2Model ----
(***************************************************************************)
(* A model of compute_H_example.py: the module-level code (import, the     *)
(* precision setting, the definition of compute_H, the demonstration loop) *)
(* and compute_H itself, one action per source line.                       *)
(*                                                                         *)
(* Numbers.  mpmath values and Python floats are modelled by exact         *)
(* rationals kept as mixed numbers w + n/d (0 <= n < d, n/d in lowest      *)
(* terms), so that t = 32.935062 and h = 1e-8 fit together in one value.   *)
(* The inputs are drawn from sets on which 50-digit arithmetic is exact    *)
(* up to the last division by 3 and the magnitude, which are carried as    *)
(* the exact rational and as the signed square root of a rational.         *)
(*                                                                         *)
(* The zeta evaluator is the external collaborator: it is drawn at Init    *)
(* from a family of deterministic evaluators (polynomials with Gaussian    *)
(* integer coefficients, some of which raise above a height).              *)
(***************************************************************************)
EXTENDS Integers, Sequences, FiniteSets, TLC

(***************************************************************************)
(* Exact rational arithmetic on mixed numbers.                             *)
(***************************************************************************)
RECURSIVE Gcd(_, _)
Gcd(a, b) == IF b = 0 THEN a ELSE Gcd(b, a % b)

IAbs(k) == IF k < 0 THEN -k ELSE k

\* The rational N/D (D > 0) as a mixed number in lowest terms.
Frac(N, D) ==
    LET g == Gcd(IAbs(N), D)
        p == N \div g
        q == D \div g
    IN  [w |-> p \div q, n |-> p % q, d |-> q]

Whole(k) == [w |-> k, n |-> 0, d |-> 1]

Add(x, y) ==
    LET g == Gcd(x.d, y.d)
        l == (x.d \div g) * y.d
        f == Frac(x.n * (l \div x.d) + y.n * (l \div y.d), l)
    IN  [w |-> x.w + y.w + f.w, n |-> f.n, d |-> f.d]

Neg(x) ==
    IF x.n = 0 THEN Whole(-x.w) ELSE [w |-> -x.w - 1, n |-> x.d - x.n, d |-> x.d]

Sub(x, y) == Add(x, Neg(y))

\* The numerator of x as an improper fraction over x.d.
Top(x) == x.w * x.d + x.n

\* k * y for y >= 0.
MulWholePos(k, y) ==
    LET g == Gcd(IAbs(k), y.d)
        f == Frac((k \div g) * y.n, y.d \div g)
    IN  [w |-> k * y.w + f.w, n |-> f.n, d |-> f.d]

MulWhole(k, y) ==
    IF k = 0 THEN Whole(0)
    ELSE IF y.w < 0 THEN Neg(MulWholePos(k, Neg(y)))
    ELSE MulWholePos(k, y)

Mul(x, y) ==
    IF x.n = 0 THEN MulWhole(x.w, y)
    ELSE IF y.n = 0 THEN MulWhole(y.w, x)
    ELSE LET a  == Top(x)
             b  == Top(y)
             g1 == Gcd(IAbs(a), y.d)
             g2 == Gcd(IAbs(b), x.d)
         IN  Frac((a \div g1) * (b \div g2), (x.d \div g2) * (y.d \div g1))

IsZero(x) == x.w = 0 /\ x.n = 0

Sign(x) == IF x.w < 0 THEN -1 ELSE IF IsZero(x) THEN 0 ELSE 1

\* 1/y for y # 0.
Recip(y) ==
    LET b == Top(y)
    IN  IF b > 0 THEN Frac(y.d, b) ELSE Frac(-y.d, -b)

Div(x, y) == Mul(x, Recip(y))

Less(x, y) == Sign(Sub(x, y)) < 0

(***************************************************************************)
(* Complex values: a pair of real components.                              *)
(***************************************************************************)
Cx(re, im) == [re |-> re, im |-> im]

\* The Gaussian integer a + b*i.
G(a, b) == Cx(Whole(a), Whole(b))

CAdd(x, y) == Cx(Add(x.re, y.re), Add(x.im, y.im))

CSub(x, y) == Cx(Sub(x.re, y.re), Sub(x.im, y.im))

CMul(x, y) ==
    Cx(Sub(Mul(x.re, y.re), Mul(x.im, y.im)), Add(Mul(x.re, y.im), Mul(x.im, y.re)))

CMulWhole(k, z) == Cx(MulWhole(k, z.re), MulWhole(k, z.im))

CDivReal(z, r) == Cx(Div(z.re, r), Div(z.im, r))

\* |z|^2.
Norm2(z) == Add(Mul(z.re, z.re), Mul(z.im, z.im))

(***************************************************************************)
(* A real of the form sgn * sqrt(sq), sq a rational >= 0: what the         *)
(* magnitude of a complex rational is, and what float() is applied to.     *)
(* float() rounds to the nearest double, and the double is identified      *)
(* by the real it rounds.                                                  *)
(***************************************************************************)
Surd(sgn, sq) == [sgn |-> sgn, sq |-> sq]

\* x as a Surd: sign(x) * sqrt(x^2).
SurdOf(x) == Surd(Sign(x), Mul(x, x))

(***************************************************************************)
(* Bounds of the model and constants of the program.                       *)
(***************************************************************************)
\* Calls of compute_H an importing caller makes in one behaviour.
MaxCalls == 3

\* mpmath's precision before line 13 runs (the library's default).
MpmathDefaultDps == 15

\* Line 13: mp.dps = 50.
PrecisionDigits == 50

\* Lines 53, 55, 61: "-" * 50.
RuleWidth == 50

\* Line 16: h=1e-8.
DefaultH == Frac(1, 100000000)

\* Line 50: the hard-coded zeros, as the decimals written.
zeros ==
    << Frac(14134725, 1000000), Frac(21022040, 1000000), Frac(25010858, 1000000),
       Frac(30424876, 1000000), Frac(32935062, 1000000) >>

\* The heights and step sizes an importing caller passes.
Heights == {Whole(0), Whole(1)}

StepArgs == {Whole(-1), Frac(-1, 2), Whole(0), Frac(1, 2), Whole(1)}

(***************************************************************************)
(* The zeta evaluators.  coef is <<a0, a1, ..., an>>, the evaluator's      *)
(* value is a0 + a1*s + ... + an*s^n; with fails it raises at every s      *)
(* whose imaginary part is above limit.                                    *)
(***************************************************************************)
Evaluator(coef, fails, limit) == [coef |-> coef, fails |-> fails, limit |-> limit]

LibraryEvaluators ==
    { Evaluator(<<G(1, 0), G(0, 1)>>, FALSE, Whole(0)),
      Evaluator(<<G(0, 0), G(1, 1), G(1, 0)>>, FALSE, Whole(0)),
      Evaluator(<<G(0, 1), G(-2, 0), G(0, 0), G(1, 0)>>, FALSE, Whole(0)),
      Evaluator(<<G(0, 0), G(1, 0), G(0, 0), G(0, 0), G(0, 0), G(1, 0)>>, FALSE, Whole(0)),
      Evaluator(<<G(0, 1), G(-2, 0), G(0, 0), G(1, 0)>>, TRUE, Frac(1, 2)) }

ScriptEvaluators ==
    { Evaluator(<<G(1, 0), G(0, 1)>>, FALSE, Whole(0)),
      Evaluator(<<G(0, 0), G(2, 0)>>, FALSE, Whole(0)),
      Evaluator(<<G(1, 0), G(0, 1)>>, TRUE, Whole(14)),
      Evaluator(<<G(1, 0), G(0, 1)>>, TRUE, Whole(22)),
      Evaluator(<<G(1, 0), G(0, 1)>>, TRUE, Whole(32)) }

RECURSIVE Horner(_, _, _)
Horner(coef, s, k) ==
    IF k = Len(coef) THEN coef[k] ELSE CAdd(coef[k], CMul(s, Horner(coef, s, k + 1)))

\* The derivative's coefficients: <<a1, 2*a2, ..., n*an>>.
DerivCoef(coef) == [k \in 1..(Len(coef) - 1) |-> CMulWhole(k, coef[k + 1])]

(***************************************************************************)
(* The state.                                                              *)
(***************************************************************************)
VARIABLES
    pep701,   \* the interpreter accepts a backslash inside an f-string field (Python >= 3.12)
    main,     \* __name__ == "__main__": the file is run, not imported
    zeta,     \* the zeta evaluator behind mp_zeta
    pc,       \* the line the module-level code is at
    mp_dps,   \* mp.dps, the precision context (0: mpmath is not imported yet)
    glob,     \* the module's globals zeros, t, H
    it,       \* how many entries of zeros the for loop has taken
    frame,    \* the activation of compute_H: its line and its locals
    evals,    \* the points mp_zeta was called at by the current (or last) call
    ret,      \* what the last call of compute_H gave its caller
    hist,     \* every completed call: precision context and outcome
    ncalls,   \* calls of compute_H so far
    out       \* the lines printed

vars == <<pep701, main, zeta, pc, mp_dps, glob, it, frame, evals, ret, hist, ncalls, out>>

env == <<pep701, main, zeta>>

script == <<pc, glob, it, out>>

NoLocals == [x \in {} |-> 0]

Bind(loc, name, v) == [x \in DOMAIN loc \cup {name} |-> IF x = name THEN v ELSE loc[x]]

NoFrame == [line |-> "none", loc |-> NoLocals]

NoOutcome == [kind |-> "none", t |-> Whole(0), h |-> Whole(0), val |-> Surd(0, Whole(0)), exc |-> ""]

Returned(t, h, v) == [kind |-> "return", t |-> t, h |-> h, val |-> v, exc |-> ""]

Raised(t, h, e) == [kind |-> "raise", t |-> t, h |-> h, val |-> Surd(0, Whole(0)), exc |-> e]

Init ==
    /\ pep701 \in BOOLEAN
    /\ main \in BOOLEAN
    /\ zeta \in (IF main THEN ScriptEvaluators ELSE LibraryEvaluators)
    /\ pc = "compile"
    /\ mp_dps = 0
    /\ glob = NoLocals
    /\ it = 0
    /\ frame = NoFrame
    /\ evals = <<>>
    /\ ret = NoOutcome
    /\ hist = {}
    /\ ncalls = 0
    /\ out = <<>>

(***************************************************************************)
(* compute_H, line by line.                                                *)
(***************************************************************************)
\* mp.mpc(re, im) and mp.mpf(x) of values the precision holds exactly.
mpc(re, im) == Cx(re, im)

mpf(x) == x

\* Line 10: mp_zeta, the evaluator: its value at s, or a failure.
mp_zeta(s) ==
    IF zeta.fails /\ Less(zeta.limit, s.im)
    THEN [ok |-> FALSE, val |-> G(0, 0)]
    ELSE [ok |-> TRUE, val |-> Horner(zeta.coef, s, 1)]

\* Line 31: s = mp.mpc(0.5, t).
CriticalPoint(t) == mpc(Frac(1, 2), t)

\* Line 32: h1, h2 = mp.mpf(h), mp.mpf(h/2).
StepSizes(h) == <<mpf(h), mpf(Div(h, Whole(2)))>>

\* The step taken along the real axis: s + mp.mpc(hk, 0).
PlusPointReal(s, hk) == CAdd(s, mpc(hk, Whole(0)))

\* Lines 35, 39: s + mp.mpc(0, hk).
PlusPoint(s, hk) == CAdd(s, mpc(Whole(0), hk))

\* A forward difference: the lower point is s itself.
MinusPointForward(s, hk) == s

\* Lines 36, 40: s - mp.mpc(0, hk).
MinusPoint(s, hk) == CSub(s, mpc(Whole(0), hk))

\* A divisor guarded against zero: 2 * hk, or 1 when that is zero.
DivisorGuarded(hk) == IF IsZero(hk) THEN Whole(1) ELSE MulWhole(2, hk)

\* Lines 37, 41: the divisor 2 * hk; the division raises when it is zero.
Divisor(hk) == MulWhole(2, hk)

\* Lines 37, 41: (f_p - f_m) / (2 * hk), for a divisor that is not zero.
CentralDiff(f_p, f_m, hk) == CDivReal(CSub(f_p, f_m), Divisor(hk))

\* The extrapolation left out: the finer central difference alone.
RichardsonNone(d1, d2) == d2

\* Line 43: (4 * d2 - d1) / 3.
Richardson(d1, d2) == CDivReal(CSub(CMulWhole(4, d2), d1), Whole(3))

\* float(derivative.real): the magnitude forgotten.
MagnitudeRealPart(z) == SurdOf(z.re)

\* Line 44: float(abs(derivative)).
Magnitude(z) == LET q == Norm2(z) IN Surd(Sign(q), q)

InCall(line) == frame.line = line

Goto(line, name, v) == frame' = [line |-> line, loc |-> Bind(frame.loc, name, v)]

\* The call ends: its frame is dropped and the caller gets the outcome.
Complete(o) ==
    /\ frame' = NoFrame
    /\ ret' = o
    /\ hist' = hist \cup {[dps |-> mp_dps, out |-> o]}

Raise(e) == Complete(Raised(frame.loc["t"], frame.loc["h"], e))

NewFrame(t, h) == [line |-> "L31", loc |-> Bind(Bind(NoLocals, "t", t), "h", h)]

\* One call of mp_zeta, bound to a local, or its failure raised.
Evaluate(name, point, next) ==
    LET r == mp_zeta(point)
    IN  /\ evals' = Append(evals, point)
        /\ IF r.ok
           THEN Goto(next, name, r.val) /\ UNCHANGED <<ret, hist>>
           ELSE Raise("EvaluationFailure")
        /\ UNCHANGED <<env, script, mp_dps, ncalls>>

\* A division by 2 * hk, bound to a local, or ZeroDivisionError raised.
Difference(name, f_p, f_m, hk, next) ==
    /\ IF IsZero(Divisor(hk))
       THEN Raise("ZeroDivisionError")
       ELSE Goto(next, name, CentralDiff(f_p, f_m, hk)) /\ UNCHANGED <<ret, hist>>
    /\ UNCHANGED <<env, script, mp_dps, ncalls, evals>>

\* Line 31 preceded by a precision raised for the call and never restored.
H_L31_RaisesPrecision ==
    /\ InCall("L31")
    /\ Goto("L32", "s", CriticalPoint(frame.loc["t"]))
    /\ mp_dps' = PrecisionDigits + 10
    /\ UNCHANGED <<env, script, ncalls, evals, ret, hist>>

H_L31 ==
    /\ InCall("L31")
    /\ Goto("L32", "s", CriticalPoint(frame.loc["t"]))
    /\ UNCHANGED <<env, script, mp_dps, ncalls, evals, ret, hist>>

\* The finer step shrinking with every call made: h / (1 + ncalls).
H_L32_Drift ==
    /\ InCall("L32")
    /\ frame' = [line |-> "L35",
                 loc |-> Bind(Bind(frame.loc, "h1", mpf(frame.loc["h"])),
                              "h2", mpf(Div(frame.loc["h"], Whole(1 + ncalls))))]
    /\ UNCHANGED <<env, script, mp_dps, ncalls, evals, ret, hist>>

H_L32 ==
    /\ InCall("L32")
    /\ frame' = [line |-> "L35",
                 loc |-> Bind(Bind(frame.loc, "h1", StepSizes(frame.loc["h"])[1]),
                              "h2", StepSizes(frame.loc["h"])[2])]
    /\ UNCHANGED <<env, script, mp_dps, ncalls, evals, ret, hist>>

H_L35 ==
    /\ InCall("L35")
    /\ Evaluate("f_p_h1", PlusPoint(frame.loc["s"], frame.loc["h1"]), "L36")

H_L36 ==
    /\ InCall("L36")
    /\ Evaluate("f_m_h1", MinusPoint(frame.loc["s"], frame.loc["h1"]), "L37")

H_L37 ==
    /\ InCall("L37")
    /\ Difference("d1", frame.loc["f_p_h1"], frame.loc["f_m_h1"], frame.loc["h1"], "L39")

H_L39 ==
    /\ InCall("L39")
    /\ Evaluate("f_p_h2", PlusPoint(frame.loc["s"], frame.loc["h2"]), "L40")

H_L40 ==
    /\ InCall("L40")
    /\ Evaluate("f_m_h2", MinusPoint(frame.loc["s"], frame.loc["h2"]), "L41")

H_L41 ==
    /\ InCall("L41")
    /\ Difference("d2", frame.loc["f_p_h2"], frame.loc["f_m_h2"], frame.loc["h2"], "L43")

H_L43 ==
    /\ InCall("L43")
    /\ Goto("L44", "derivative", Richardson(frame.loc["d1"], frame.loc["d2"]))
    /\ UNCHANGED <<env, script, mp_dps, ncalls, evals, ret, hist>>

H_L44 ==
    /\ InCall("L44")
    /\ Complete(Returned(frame.loc["t"], frame.loc["h"], Magnitude(frame.loc["derivative"])))
    /\ UNCHANGED <<env, script, mp_dps, ncalls, evals>>

\* Lines 16-44 as one function of (t, h): the outcome of a call.
compute_H(t, h) ==
    LET s  == CriticalPoint(t)
        h1 == StepSizes(h)[1]
        h2 == StepSizes(h)[2]
        f_p_h1 == mp_zeta(PlusPoint(s, h1))
        f_m_h1 == mp_zeta(MinusPoint(s, h1))
        f_p_h2 == mp_zeta(PlusPoint(s, h2))
        f_m_h2 == mp_zeta(MinusPoint(s, h2))
        d1 == CentralDiff(f_p_h1.val, f_m_h1.val, h1)
        d2 == CentralDiff(f_p_h2.val, f_m_h2.val, h2)
    IN  IF ~f_p_h1.ok \/ ~f_m_h1.ok THEN Raised(t, h, "EvaluationFailure")
        ELSE IF IsZero(Divisor(h1)) THEN Raised(t, h, "ZeroDivisionError")
        ELSE IF ~f_p_h2.ok \/ ~f_m_h2.ok THEN Raised(t, h, "EvaluationFailure")
        ELSE IF IsZero(Divisor(h2)) THEN Raised(t, h, "ZeroDivisionError")
        ELSE Returned(t, h, Magnitude(Richardson(d1, d2)))

(***************************************************************************)
(* The module-level code.                                                  *)
(***************************************************************************)
Idle == frame = NoFrame

Step(from, to) == pc = from /\ pc' = to

\* The file is compiled before any of it runs.  Line 54 has \' inside an
\* f-string replacement field: a SyntaxError before Python 3.12.
Compile ==
    /\ pc = "compile"
    /\ pc' = IF pep701 THEN "L10" ELSE "SyntaxError"
    /\ UNCHANGED <<env, mp_dps, glob, it, frame, evals, ret, hist, ncalls, out>>

L10_Import ==
    /\ Step("L10", "L13")
    /\ mp_dps' = MpmathDefaultDps
    /\ UNCHANGED <<env, glob, it, frame, evals, ret, hist, ncalls, out>>

L13_SetPrecision ==
    /\ Step("L13", "L16")
    /\ mp_dps' = PrecisionDigits
    /\ UNCHANGED <<env, glob, it, frame, evals, ret, hist, ncalls, out>>

L16_Def ==
    /\ Step("L16", "L48")
    /\ UNCHANGED <<env, mp_dps, glob, it, frame, evals, ret, hist, ncalls, out>>

L48_IfMain ==
    /\ pc = "L48"
    /\ pc' = IF main THEN "L50" ELSE "imported"
    /\ UNCHANGED <<env, mp_dps, glob, it, frame, evals, ret, hist, ncalls, out>>

L50_Zeros ==
    /\ Step("L50", "L52")
    /\ glob' = Bind(glob, "zeros", zeros)
    /\ UNCHANGED <<env, mp_dps, it, frame, evals, ret, hist, ncalls, out>>

\* A print statement of the driver: one line more on the output.
Say(line, to) ==
    /\ pc' = to
    /\ out' = Append(out, line)
    /\ UNCHANGED <<env, mp_dps, glob, it, frame, evals, ret, hist, ncalls>>

L52_Title ==
    /\ pc = "L52"
    /\ Say(<<"title">>, "L53")

L53_Rule ==
    /\ pc = "L53"
    /\ Say(<<"rule", RuleWidth>>, "L54")

L54_Header ==
    /\ pc = "L54"
    /\ Say(<<"header">>, "L55")

L55_Rule ==
    /\ pc = "L55"
    /\ Say(<<"rule", RuleWidth>>, "L57")

\* Line 57: for t in zeros: the next entry, or the end of the loop.
L57_For ==
    /\ pc = "L57"
    /\ IF it < Len(glob["zeros"])
       THEN /\ it' = it + 1
            /\ glob' = Bind(glob, "t", glob["zeros"][it + 1])
            /\ pc' = "L58"
       ELSE /\ pc' = "L61"
            /\ UNCHANGED <<it, glob>>
    /\ UNCHANGED <<env, mp_dps, frame, evals, ret, hist, ncalls, out>>

\* Line 58: compute_H(t) is called, h taking its default.
L58_Call ==
    /\ Step("L58", "L58r")
    /\ frame' = NewFrame(glob["t"], DefaultH)
    /\ evals' = <<>>
    /\ ret' = NoOutcome
    /\ ncalls' = ncalls + 1
    /\ UNCHANGED <<env, mp_dps, glob, it, hist, out>>

\* Line 58: H = the value returned.
L58_Assign ==
    /\ Step("L58r", "L59")
    /\ Idle
    /\ ret.kind = "return"
    /\ glob' = Bind(glob, "H", ret.val)
    /\ UNCHANGED <<env, mp_dps, it, frame, evals, ret, hist, ncalls, out>>

\* The exception caught around the call and the loop continued.
L58_Swallow ==
    /\ Step("L58r", "L57")
    /\ Idle
    /\ ret.kind = "raise"
    /\ UNCHANGED <<env, mp_dps, glob, it, frame, evals, ret, hist, ncalls, out>>

\* Line 58: nothing handles an exception of the call: the traceback, exit status 1.
L58_Unhandled ==
    /\ Step("L58r", "traceback")
    /\ Idle
    /\ ret.kind = "raise"
    /\ UNCHANGED <<env, mp_dps, glob, it, frame, evals, ret, hist, ncalls, out>>

\* Line 59: the row, formatted whole and printed by one print.
L59_Row ==
    /\ pc = "L59"
    /\ Say(<<"row", glob["t"], glob["H"]>>, "L57")

L61_Rule ==
    /\ pc = "L61"
    /\ Say(<<"rule", RuleWidth>>, "L62")

L62_Note ==
    /\ pc = "L62"
    /\ Say(<<"note", 1>>, "L63")

L63_Note ==
    /\ pc = "L63"
    /\ Say(<<"note", 2>>, "exit0")

\* The importing program calls compute_H(t, h).
Caller_Call ==
    /\ pc = "imported"
    /\ Idle
    /\ ncalls < MaxCalls
    /\ \E t \in Heights, h \in StepArgs : frame' = NewFrame(t, h)
    /\ evals' = <<>>
    /\ ret' = NoOutcome
    /\ ncalls' = ncalls + 1
    /\ UNCHANGED <<env, script, mp_dps, hist>>

Module ==
    \/ Compile \/ L10_Import \/ L13_SetPrecision \/ L16_Def \/ L48_IfMain

Driver ==
    \/ L50_Zeros \/ L52_Title \/ L53_Rule \/ L54_Header \/ L55_Rule
    \/ L57_For \/ L58_Call \/ L58_Assign \/ L58_Unhandled \/ L59_Row
    \/ L61_Rule \/ L62_Note \/ L63_Note

Body ==
    \/ H_L31 \/ H_L32 \/ H_L35 \/ H_L36 \/ H_L37
    \/ H_L39 \/ H_L40 \/ H_L41 \/ H_L43 \/ H_L44

Next == Module \/ Driver \/ Caller_Call \/ Body

Spec == Init /\ [][Next]_vars

(***************************************************************************)
(* The four evaluations of lines 35, 36, 39, 40 taken in any order, each   *)
(* bound to the local the code binds it to; the two divisions follow.      *)
(***************************************************************************)
\* An importing caller's calls in one behaviour of the any-order variant.
MaxAnyOrderCalls == 1

EvalNames == <<"f_p_h1", "f_m_h1", "f_p_h2", "f_m_h2">>

\* The point of the k-th evaluation of the code.
EvalPoint(loc, k) ==
    CASE k = 1 -> PlusPoint(loc["s"], loc["h1"])
      [] k = 2 -> MinusPoint(loc["s"], loc["h1"])
      [] k = 3 -> PlusPoint(loc["s"], loc["h2"])
      [] k = 4 -> MinusPoint(loc["s"], loc["h2"])

Pending(loc) == {k \in 1..4 : EvalNames[k] \notin DOMAIN loc}

\* The values collected in the order they arrive.
SlotByArrival(loc, k) == EvalNames[5 - Cardinality(Pending(loc))]

\* Where the k-th evaluation's value goes.
Slot(loc, k) == EvalNames[k]

A_Call ==
    /\ pc = "imported"
    /\ Idle
    /\ ncalls < MaxAnyOrderCalls
    /\ \E t \in Heights, h \in StepArgs : frame' = NewFrame(t, h)
    /\ evals' = <<>>
    /\ ret' = NoOutcome
    /\ ncalls' = ncalls + 1
    /\ UNCHANGED <<env, script, mp_dps, hist>>

A_Eval ==
    /\ InCall("L35")
    /\ \E k \in Pending(frame.loc) :
          LET r == mp_zeta(EvalPoint(frame.loc, k))
          IN  IF r.ok
              THEN /\ Goto(IF Pending(frame.loc) = {k} THEN "L37" ELSE "L35",
                           Slot(frame.loc, k), r.val)
                   /\ evals' = Append(evals, k)
                   /\ UNCHANGED <<ret, hist>>
              ELSE /\ Raise("EvaluationFailure")
                   /\ evals' = <<>>
    /\ UNCHANGED <<env, script, mp_dps, ncalls>>

A_L37 ==
    /\ InCall("L37")
    /\ IF IsZero(Divisor(frame.loc["h1"]))
       THEN Raise("ZeroDivisionError") /\ evals' = <<>>
       ELSE /\ Goto("L41", "d1",
                    CentralDiff(frame.loc["f_p_h1"], frame.loc["f_m_h1"], frame.loc["h1"]))
            /\ UNCHANGED <<ret, hist, evals>>
    /\ UNCHANGED <<env, script, mp_dps, ncalls>>

A_L44 ==
    /\ InCall("L44")
    /\ Complete(Returned(frame.loc["t"], frame.loc["h"], Magnitude(frame.loc["derivative"])))
    /\ evals' = <<>>
    /\ UNCHANGED <<env, script, mp_dps, ncalls>>

NextAnyOrder ==
    \/ Module \/ Driver \/ A_Call
    \/ H_L31 \/ H_L32 \/ A_Eval \/ A_L37 \/ H_L41 \/ H_L43 \/ A_L44

SpecAnyOrder == Init /\ [][NextAnyOrder]_vars

(***************************************************************************)
(* The quantities the properties are stated in, written from the formulas  *)
(* of the specification.                                                   *)
(***************************************************************************)
\* The evaluator's value at s, and its derivative there.
ZetaAt(s) == Horner(zeta.coef, s, 1)

ZetaPrimeAt(s) == Horner(DerivCoef(zeta.coef), s, 1)

\* The point 0.5 + i*y.
OnLine(y) == Cx(Frac(1, 2), y)

\* d(h) = (zeta(s + i*h) - zeta(s - i*h)) / (2*h) at s = 0.5 + i*t, h # 0.
CentralDifferenceAt(t, h) ==
    CDivReal(CSub(ZetaAt(OnLine(Add(t, h))), ZetaAt(OnLine(Sub(t, h)))), Add(h, h))

HalfOf(h) == Div(h, Whole(2))

\* (4*d2 - d1) / 3 with d1 = d(h), d2 = d(h/2).
ExtrapolatedAt(t, h) ==
    LET d1 == CentralDifferenceAt(t, h)
        d2 == CentralDifferenceAt(t, HalfOf(h))
    IN  CDivReal(CSub(CAdd(CAdd(d2, d2), CAdd(d2, d2)), d1), Whole(3))

\* |z| as a real.
AbsOf(z) == Surd(IF IsZero(z.re) /\ IsZero(z.im) THEN 0 ELSE 1, Norm2(z))

\* D0, the limit of d(h) at h = 0: i * zeta'(s).
D0At(t) == CMul(G(0, 1), ZetaPrimeAt(OnLine(t)))

\* d(h) = D0 + c*h^2 at the two step sizes used: d(h) - D0 = 4 * (d(h/2) - D0).
SingleH2Term(t, h) ==
    LET e1 == CSub(CentralDifferenceAt(t, h), D0At(t))
        e2 == CSub(CentralDifferenceAt(t, HalfOf(h)), D0At(t))
    IN  e1 = CAdd(CAdd(e2, e2), CAdd(e2, e2))

\* A call has just completed: ret is its outcome.
Completed == Idle /\ ret.kind # "none"

HasReturned == Idle /\ ret.kind = "return"

(***************************************************************************)
(* C1.  For every t, every h > 0 and every evaluator that does not fail,   *)
(* compute_H(t, h) returns |(4*d2 - d1)/3| with d1 = d(h), d2 = d(h/2);    *)
(* and when d(h) = D0 + c*h^2 (every evaluator of degree <= 4) the value   *)
(* returned is |D0|: the h^2 term is cancelled.                            *)
(***************************************************************************)
C1_RichardsonCancelsH2 ==
    (Completed /\ Sign(ret.h) > 0) =>
        /\ ~zeta.fails => ret.kind = "return"
        /\ ret.kind = "return" =>
              /\ ret.val = AbsOf(ExtrapolatedAt(ret.t, ret.h))
              /\ Len(zeta.coef) <= 5 =>
                    /\ SingleH2Term(ret.t, ret.h)
                    /\ ret.val = AbsOf(D0At(ret.t))

\* A call with h > 0 has returned |D0| although d(h) and d(h/2) differ from D0.
C1_Witness ==
    /\ HasReturned
    /\ Sign(ret.h) > 0
    /\ Len(zeta.coef) = 4
    /\ CentralDifferenceAt(ret.t, ret.h) # D0At(ret.t)
    /\ CentralDifferenceAt(ret.t, HalfOf(ret.h)) # D0At(ret.t)
    /\ ret.val = AbsOf(D0At(ret.t))
    /\ ret.val.sgn = 1

(***************************************************************************)
(* C2.  Every value compute_H returns is >= 0, whatever t and h.           *)
(***************************************************************************)
C2_NonNegative ==
    /\ HasReturned => ret.val.sgn >= 0 /\ Sign(ret.val.sq) >= 0
    /\ "H" \in DOMAIN glob => glob["H"].sgn >= 0

\* A call has returned a value > 0 for a derivative estimate whose real part is < 0.
C2_Witness ==
    /\ HasReturned
    /\ IsZero(ret.h) = FALSE
    /\ Sign(ExtrapolatedAt(ret.t, ret.h).re) < 0
    /\ ret.val.sgn = 1

(***************************************************************************)
(* C3.  Calls with identical (t, h) under an identical precision context   *)
(* have identical outcomes, whatever calls were made before or between.    *)
(***************************************************************************)
C3_Deterministic ==
    \A r1, r2 \in hist :
        (r1.out.t = r2.out.t /\ r1.out.h = r2.out.h /\ r1.dps = r2.dps) => r1 = r2

\* Three calls were made with two distinct argument pairs: one pair was
\* called twice, the other call before, between or after, and both returned.
C3_Witness ==
    /\ ncalls = 3
    /\ Idle
    /\ Cardinality(hist) = 2
    /\ \A r \in hist : r.out.kind = "return" /\ r.out.val.sgn = 1

(***************************************************************************)
(* C4, as stated.  Every call of compute_H with h <= 0, zero or negative,  *)
(* ends by signalling InvalidStepSize and returns no numeric result.       *)
(***************************************************************************)
C4_InvalidStepSizeSignalled ==
    (Completed /\ Sign(ret.h) <= 0) =>
        /\ ret.kind = "raise"
        /\ ret.exc = "InvalidStepSize"

(***************************************************************************)
(* C4, amended.  compute_H validates nothing and never signals             *)
(* InvalidStepSize.  With h = 0 it returns no result: it raises the        *)
(* evaluator's failure when the evaluator fails at 0.5 + i*t, and          *)
(* otherwise ZeroDivisionError from the division of line 37.  With h < 0   *)
(* no step-size error is signalled: the call returns a value when the      *)
(* evaluator does not fail, and raises nothing but the evaluator's         *)
(* failure when it does.  What is raised reaches the caller as raised.     *)
(***************************************************************************)
C4_NoStepSizeValidation ==
    (Completed /\ Sign(ret.h) <= 0) =>
        /\ ret.exc # "InvalidStepSize"
        /\ IsZero(ret.h) =>
              /\ ret.kind = "raise"
              /\ ret.exc = IF mp_zeta(OnLine(ret.t)).ok
                           THEN "ZeroDivisionError" ELSE "EvaluationFailure"
        /\ Sign(ret.h) < 0 =>
              /\ ~zeta.fails => ret.kind = "return"
              /\ ret.kind = "raise" => ret.exc = "EvaluationFailure"
        /\ [dps |-> mp_dps, out |-> ret] \in hist

\* A call with h < 0 has returned a value, after a call with h = 0 raised
\* ZeroDivisionError.
C4_Witness ==
    /\ HasReturned
    /\ Sign(ret.h) < 0
    /\ ret.val.sgn = 1
    /\ \E r \in hist : IsZero(r.out.h) /\ r.out.exc = "ZeroDivisionError"

(***************************************************************************)
(* C5.  Once the module is initialised (line 13 has run) the precision is  *)
(* 50 digits in every state, during and after every call of compute_H;     *)
(* once 50 it stays 50; and no step of compute_H changes a global: not the *)
(* precision, not the module's variables, not the output.                  *)
(***************************************************************************)
Initialised == pc \notin {"compile", "SyntaxError", "L10", "L13"}

C5_PrecisionSetOnce ==
    /\ [](Initialised => mp_dps = PrecisionDigits)
    /\ [](\A r \in hist : r.dps = PrecisionDigits)
    /\ [][mp_dps = PrecisionDigits => mp_dps' = PrecisionDigits]_vars
    /\ [][~Idle => UNCHANGED <<mp_dps, pc, glob, it, out>>]_vars

\* Two calls of compute_H have completed, the last one returning, and the
\* precision is 50.
C5_Witness ==
    /\ HasReturned
    /\ ncalls = 2
    /\ Cardinality(hist) = 2
    /\ mp_dps = PrecisionDigits

(***************************************************************************)
(* What the driver prints.                                                 *)
(***************************************************************************)
\* The four lines printed before the loop: title, rule, header, rule.
Preamble == << <<"title">>, <<"rule", RuleWidth>>, <<"header">>, <<"rule", RuleWidth>> >>

\* The rows of the first k entries of zeros, each with the default step.
Rows(k) == [j \in 1..k |-> <<"row", zeros[j], compute_H(zeros[j], DefaultH).val>>]

\* The three lines printed after the loop: rule, note, note.
Closing == << <<"rule", RuleWidth>>, <<"note", 1>>, <<"note", 2>> >>

\* The process of the script has ended.
Ended == pc \in {"exit0", "traceback", "SyntaxError"}

SomeCallRaised == \E r \in hist : r.out.kind = "raise"

(***************************************************************************)
(* C6, as stated.  Run as a script, with no failure of the evaluator, the  *)
(* driver ends having printed the rule, the five rows of the zeros in list *)
(* order, each computed with the default step, then the rule: no row       *)
(* twice, none skipped.                                                    *)
(***************************************************************************)
C6_PrintsFiveRows ==
    (main /\ Ended /\ ~SomeCallRaised) =>
        /\ pc = "exit0"
        /\ out = Preamble \o Rows(Len(zeros)) \o Closing
        /\ Len(Rows(Len(zeros))) = 5

(***************************************************************************)
(* C7.  When compute_H raises for the k-th entry of zeros the driver stops *)
(* there: the output is the preamble and the full rows of entries 1..k-1,  *)
(* nothing of entry k, no later row, no closing rule and no note; the      *)
(* process ends with the traceback and prints nothing more.                *)
(***************************************************************************)
C7_FailureAbortsLoop ==
    (main /\ SomeCallRaised) =>
        /\ pc \in {"L58r", "traceback"}
        /\ Idle /\ ret.kind = "raise"
        /\ out = Preamble \o Rows(it - 1)
        /\ pc = "traceback" => ~ENABLED Next

\* The call for the third entry raised: the process has ended with two rows printed.
C7_Witness ==
    /\ main
    /\ pc = "traceback"
    /\ it = 3
    /\ ret.kind = "raise"
    /\ Len(out) = Len(Preamble) + 2
    /\ out[Len(out)][1] = "row"

(***************************************************************************)
(* C8.  Under the any-order specification, with the four evaluations taken *)
(* in any of their 24 orders, the derivative estimate at line 44 has the   *)
(* magnitude the code's sequential order returns, and every completed call *)
(* has the outcome of the sequential order.                                *)
(***************************************************************************)
C8_OrderIndependent ==
    /\ InCall("L44") =>
          /\ Len(evals) = 4
          /\ compute_H(frame.loc["t"], frame.loc["h"]) =
                Returned(frame.loc["t"], frame.loc["h"], Magnitude(frame.loc["derivative"]))
    /\ Completed => ret = compute_H(ret.t, ret.h)

\* The four evaluations were made in the reverse of the code's order and
\* the call is about to return a value > 0.
C8_Witness ==
    /\ InCall("L44")
    /\ evals = <<4, 3, 2, 1>>
    /\ Magnitude(frame.loc["derivative"]).sgn = 1
    /\ Len(zeta.coef) > 2

(***************************************************************************)
(* C9, as stated.  Every call of compute_H, whatever t and h, has invoked  *)
(* the evaluator exactly four times when it ends, at 0.5 + i*(t+h),        *)
(* 0.5 + i*(t-h), 0.5 + i*(t+h/2) and 0.5 + i*(t-h/2).                     *)
(***************************************************************************)
FourPoints(t, h) ==
    << OnLine(Add(t, h)), OnLine(Sub(t, h)),
       OnLine(Add(t, HalfOf(h))), OnLine(Sub(t, HalfOf(h))) >>

C9_ExactlyFourEvaluations ==
    Completed =>
        /\ Len(evals) = 4
        /\ evals = FourPoints(ret.t, ret.h)

(***************************************************************************)
(* C9, amended.  Every call of compute_H that returns has invoked the      *)
(* evaluator exactly four times, at 0.5 + i*(t+h), 0.5 + i*(t-h),          *)
(* 0.5 + i*(t+h/2), 0.5 + i*(t-h/2) in that order; a call that raises has  *)
(* invoked it at the first one to four of these points only (at two when   *)
(* it raises ZeroDivisionError, which is when h = 0).  Every point the     *)
(* evaluator is invoked at has real part exactly 0.5: none is the pole     *)
(* s = 1, whatever t and h.                                                *)
(***************************************************************************)
C9_FourPointsOnTheLine ==
    /\ \A k \in 1..Len(evals) :
          /\ evals[k].re = Frac(1, 2)
          /\ evals[k] # G(1, 0)
    /\ HasReturned => evals = FourPoints(ret.t, ret.h)
    /\ (Completed /\ ret.kind = "raise") =>
          /\ Len(evals) \in 1..4
          /\ evals = SubSeq(FourPoints(ret.t, ret.h), 1, Len(evals))
          /\ ret.exc = "ZeroDivisionError" => Len(evals) = 2 /\ IsZero(ret.h)

\* A call with h # 0 has returned after four evaluations at four distinct points.
C9_Witness ==
    /\ HasReturned
    /\ ~IsZero(ret.h)
    /\ Len(evals) = 4
    /\ Cardinality({evals[k] : k \in 1..4}) = 4

(***************************************************************************)
(* C10.  For every t and every h # 0, the calls compute_H(t, h) and        *)
(* compute_H(t, -h) have the same outcome: the same value when they        *)
(* return.  A negative h raises no error of its own, and only h = 0 ends   *)
(* in ZeroDivisionError.                                                   *)
(***************************************************************************)
C10_SignSymmetric ==
    /\ \A r1, r2 \in hist :
          (r1.out.t = r2.out.t /\ r1.out.h = Neg(r2.out.h) /\ ~IsZero(r1.out.h)) =>
              /\ r1.out.kind = r2.out.kind
              /\ r1.out.val = r2.out.val
              /\ r1.out.exc = r2.out.exc
    /\ \A r \in hist : r.out.exc = "ZeroDivisionError" <=> IsZero(r.out.h) /\ mp_zeta(OnLine(r.out.t)).ok

\* compute_H(t, h) and compute_H(t, -h) have both returned, the same value > 0,
\* for an evaluator that is not linear.
C10_Witness ==
    /\ Idle
    /\ Len(zeta.coef) > 2
    /\ \E r1, r2 \in hist :
          /\ r1.out.t = r2.out.t
          /\ Sign(r1.out.h) > 0
          /\ r2.out.h = Neg(r1.out.h)
          /\ r1.out.kind = "return" /\ r2.out.kind = "return"
          /\ r1.out.val = r2.out.val
          /\ r1.out.val.sgn = 1

====
